---- MODULE Spec2Model ----
(***************************************************************************)
(* Advanced-Router: the route matcher, the query parser and the            *)
(* navigation pipeline of src/router.ts, with the browser's location and   *)
(* the caller's callbacks as the environment.                              *)
(*                                                                         *)
(* A JavaScript string is a sequence of one-character strings, so that     *)
(* "/a" is <<"/", "a">>.  A Record<string, string> is a function from      *)
(* such sequences to such sequences.                                       *)
(***************************************************************************)
EXTENDS Integers, Sequences, FiniteSets, TLC

VARIABLES
    routes,      \* Router.routes: the table in insertion order (router.ts:25)
    mode,        \* Router.mode (router.ts:26)
    root,        \* Router.root (router.ts:27)
    fallback,    \* Router.fallback (router.ts:28)
    currentRoute,    \* Router.currentRoute: a position in routes, 0 for null (router.ts:29)
    middleware,      \* Router.middleware: the registered middlewares (router.ts:31)
    onRouteChange,   \* whether options.onRouteChange was given (router.ts:32)
    scrollBehavior,  \* Router.scrollBehavior (router.ts:33)
    heap,        \* the objects: heap[StateRef] is Router.state (router.ts:30), the
                 \* others are params objects, query objects and getState() results
    location,    \* window.location: pathname and fragment
    listening,   \* whether start() has registered the event listener
    hashEvents,  \* hashchange events the browser has queued and not yet dispatched
    runs,        \* every call of handleRoute so far, in order of their start
    microtasks,  \* runs whose awaited promise has settled, in order of settling
    snapshots,   \* the values getState() has returned, each with what it held then
    limits,      \* the bounds of the specification: runs, middlewares, snapshots
    callArgs,    \* arguments of the direct call under test (matcher specifications)
    callRet      \* its result

config == <<routes, mode, root, fallback, onRouteChange, scrollBehavior, limits>>
machine == <<heap, currentRoute, location, hashEvents, runs, microtasks>>
harness == <<callArgs, callRet>>
vars == <<config, machine, middleware, listening, snapshots, harness>>

(***************************************************************************)
(* Strings                                                                 *)
(***************************************************************************)
\* All sequences over alphabet A of length at most n.
RECURSIVE StringsUpTo(_, _)
StringsUpTo(A, n) ==
    IF n = 0 THEN {<<>>}
    ELSE LET shorter == StringsUpTo(A, n - 1)
         IN  shorter \cup {Append(s, c) : s \in {t \in shorter : Len(t) = n - 1}, c \in A}

Drop(s, n) == SubSeq(s, n + 1, Len(s))
Take(s, n) == SubSeq(s, 1, n)

StartsWith(s, p) == Len(p) <= Len(s) /\ Take(s, Len(p)) = p

\* The empty object literal {}.
EmptyObj == [k \in {} |-> <<>>]

\* Length of the longest prefix of s that holds no "/": what [^/]+ and
\* [^/]* can consume at most.
RECURSIVE NonSlashRun(_)
NonSlashRun(s) ==
    IF s = <<>> \/ Head(s) = "/" THEN 0 ELSE 1 + NonSlashRun(Tail(s))

(***************************************************************************)
(* extractParams (router.ts:217-237)                                       *)
(*                                                                         *)
(* The pattern is rewritten into the source of a regular expression by two *)
(* String.replace passes and handed to new RegExp.  The regular expression *)
(* is kept as a sequence of tokens: a character of the pattern that        *)
(* survives both passes ("chr"), the group ([^/]+) ("param") and the      *)
(* dot-star group ("wild").  A surviving character keeps its meaning in a  *)
(* regular expression: "." matches any character; the other characters of  *)
(* the pattern alphabets below match themselves.                           *)
(***************************************************************************)
ChrTok(c) == [k |-> "chr", c |-> c]
ParamTok == [k |-> "param", c |-> ""]
WildTok == [k |-> "wild", c |-> ""]

\* pattern.replace(/:[^/]+/g, ...): every ":" followed by at least one
\* non-"/" character becomes ([^/]+), and the characters after the ":" are
\* pushed on paramNames (router.ts:220-223).
RECURSIVE ReplaceParams(_)
ReplaceParams(p) ==
    IF p = <<>> THEN [re |-> <<>>, paramNames |-> <<>>]
    ELSE IF Head(p) = ":" /\ NonSlashRun(Tail(p)) > 0
    THEN LET n == NonSlashRun(Tail(p))
             rest == ReplaceParams(Drop(p, n + 1))
         IN  [re |-> <<ParamTok>> \o rest.re,
              paramNames |-> <<SubSeq(p, 2, n + 1)>> \o rest.paramNames]
    ELSE LET rest == ReplaceParams(Tail(p))
         IN  [re |-> <<ChrTok(Head(p))>> \o rest.re, paramNames |-> rest.paramNames]

\* A wildcard that takes one non-empty segment only, as a parameter does.
StarTokenOneSegment == ParamTok

\* What "*" is replaced with (router.ts:224).
StarToken == WildTok

\* The second replace, of every "*" left by the first pass (router.ts:224).
ReplaceWild(re) ==
    [i \in 1..Len(re) |-> IF re[i] = ChrTok("*") THEN StarToken ELSE re[i]]

\* Whether regular-expression character t matches input character c.
ChrMatches(t, c) == t = "." \/ t = c

NoMatch == [ok |-> FALSE, caps |-> <<>>]

\* path.match(new RegExp(`^${regexPattern}$`)) (router.ts:226-227): the
\* backtracking matcher.  Exec(re, i, s, j) matches tokens i.. of re
\* against s from position j up to the end of s ("$") and returns the
\* captures of the groups among them; a group is greedy, so its longest
\* span is tried first.
RECURSIVE Exec(_, _, _, _), TryGroup(_, _, _, _, _, _)
Exec(re, i, s, j) ==
    IF i > Len(re)
    THEN IF j > Len(s) THEN [ok |-> TRUE, caps |-> <<>>] ELSE NoMatch
    ELSE IF re[i].k = "chr"
    THEN IF j <= Len(s) /\ ChrMatches(re[i].c, s[j])
         THEN Exec(re, i + 1, s, j + 1)
         ELSE NoMatch
    ELSE IF re[i].k = "param"
    THEN TryGroup(re, i, s, j, NonSlashRun(Drop(s, j - 1)), 1)
    ELSE TryGroup(re, i, s, j, Len(s) - j + 1, 0)

\* The group at token i takes n characters, then n - 1, ... down to least.
TryGroup(re, i, s, j, n, least) ==
    IF n < least THEN NoMatch
    ELSE LET r == Exec(re, i + 1, s, j + n)
         IN  IF r.ok
             THEN [ok |-> TRUE, caps |-> <<SubSeq(s, j, j + n - 1)>> \o r.caps]
             ELSE TryGroup(re, i, s, j, n - 1, least)

\* paramNames.forEach((name, index) => params[name] = matches[index + 1])
\* (router.ts:231-234): a later occurrence of a name overwrites an earlier.
ParamsOf(paramNames, caps) ==
    [name \in {paramNames[i] : i \in 1..Len(paramNames)} |->
        LET last == CHOOSE i \in 1..Len(paramNames) :
                        /\ paramNames[i] = name
                        /\ \A h \in 1..Len(paramNames) : paramNames[h] = name => h <= i
        IN  caps[last]]

\* The result null is [match |-> FALSE]; a match carries the params object.
extractParams(pattern, path) ==
    LET first == ReplaceParams(pattern)
        regexPattern == ReplaceWild(first.re)
        matches == Exec(regexPattern, 1, path, 1)
    IN  IF ~matches.ok
        THEN [match |-> FALSE, params |-> EmptyObj]
        ELSE [match |-> TRUE, params |-> ParamsOf(first.paramNames, matches.caps)]

(***************************************************************************)
(* matchRoute (router.ts:201-212)                                          *)
(***************************************************************************)
Digits == {"0", "1", "2", "3", "4", "5", "6", "7", "8", "9"}

\* Whether property key s is an array index: the canonical decimal form of
\* an integer below 2^32 - 1 (nine digits are always below it).
IsArrayIndex(s) ==
    /\ Len(s) \in 1..9
    /\ \A i \in 1..Len(s) : s[i] \in Digits
    /\ (Len(s) = 1 \/ s[1] # "0")

DigitValue(c) ==
    CASE c = "0" -> 0 [] c = "1" -> 1 [] c = "2" -> 2 [] c = "3" -> 3 [] c = "4" -> 4
      [] c = "5" -> 5 [] c = "6" -> 6 [] c = "7" -> 7 [] c = "8" -> 8 [] c = "9" -> 9

RECURSIVE IndexValue(_)
IndexValue(s) ==
    IF s = <<>> THEN 0 ELSE 10 * IndexValue(Take(s, Len(s) - 1)) + DigitValue(s[Len(s)])

\* The positions of table, ordered as Object.entries orders the keys of the
\* object they were inserted into: array-index keys first, ascending, then
\* the other keys in insertion order.  (router.ts:204)
RECURSIVE SortIndexKeys(_, _)
SortIndexKeys(table, left) ==
    IF left = {} THEN <<>>
    ELSE LET least == CHOOSE i \in left : \A j \in left :
                          IndexValue(table[i].pattern) <= IndexValue(table[j].pattern)
         IN  <<least>> \o SortIndexKeys(table, left \ {least})

RECURSIVE InsertionOrder(_, _)
InsertionOrder(table, i) ==
    IF i > Len(table) THEN <<>>
    ELSE (IF IsArrayIndex(table[i].pattern) THEN <<>> ELSE <<i>>)
         \o InsertionOrder(table, i + 1)

ObjectEntries(table) ==
    SortIndexKeys(table, {i \in 1..Len(table) : IsArrayIndex(table[i].pattern)})
    \o InsertionOrder(table, 1)

\* The for loop of matchRoute over entries from position k on; route is the
\* insertion position of the matched route in the table, 0 for null.
RECURSIVE MatchFrom(_, _, _, _)
MatchFrom(table, entries, k, cleanPath) ==
    IF k > Len(entries) THEN [route |-> 0, params |-> EmptyObj]
    ELSE LET params == extractParams(table[entries[k]].pattern, cleanPath)
         IN  IF params.match
             THEN [route |-> entries[k], params |-> params.params]
             ELSE MatchFrom(table, entries, k + 1, cleanPath)

matchRoute(path) ==
    LET cleanPath == IF mode = "hash" THEN <<"#">> \o path ELSE path
    IN  MatchFrom(routes, ObjectEntries(routes), 1, cleanPath)

(***************************************************************************)
(* parseQuery (router.ts:242-253)                                          *)
(***************************************************************************)
\* s.split(sep) for a one-character separator: every part, in order.
RECURSIVE Split(_, _)
Split(s, sep) ==
    IF \A i \in 1..Len(s) : s[i] # sep THEN <<s>>
    ELSE LET n == CHOOSE n \in 0..(Len(s) - 1) :
                      /\ s[n + 1] = sep
                      /\ \A i \in 1..n : s[i] # sep
         IN  <<Take(s, n)>> \o Split(Drop(s, n + 1), sep)

HexDigits == Digits \cup {"A", "B", "C", "D", "E", "F", "a", "b", "c", "d", "e", "f"}

\* The character an escape %hl stands for, for the escapes that can be
\* written with QueryChars: %33 is "3" and %3D is "=".  <<>> when the byte
\* is not a character by itself: %D3 and %DD are lead bytes of a two-byte
\* UTF-8 sequence, and no escape over QueryChars is a continuation byte.
EscapedChar(h, l) ==
    IF h = "3" /\ l = "3" THEN <<"3">>
    ELSE IF h = "3" /\ l = "D" THEN <<"=">>
    ELSE <<>>

\* decodeURIComponent: ok is FALSE where it throws URIError.
RECURSIVE decodeURIComponent(_)
decodeURIComponent(s) ==
    IF s = <<>> THEN [ok |-> TRUE, str |-> <<>>]
    ELSE IF Head(s) # "%"
    THEN LET rest == decodeURIComponent(Tail(s))
         IN  [ok |-> rest.ok, str |-> <<Head(s)>> \o rest.str]
    ELSE IF Len(s) < 3 \/ s[2] \notin HexDigits \/ s[3] \notin HexDigits
              \/ EscapedChar(s[2], s[3]) = <<>>
    THEN [ok |-> FALSE, str |-> <<>>]
    ELSE LET rest == decodeURIComponent(Drop(s, 3))
         IN  [ok |-> rest.ok, str |-> EscapedChar(s[2], s[3]) \o rest.str]

\* Length of the longest prefix of s that holds no "=".
RECURSIVE NonEqRun(_)
NonEqRun(s) == IF s = <<>> \/ Head(s) = "=" THEN 0 ELSE 1 + NonEqRun(Tail(s))

\* const [key, value] = param.split("="): the first two parts; a missing
\* value is undefined, and value || "" makes it "" (router.ts:247-249).
KeyOf(param) == Split(param, "=")[1]
ValueOf(param) == IF Len(Split(param, "=")) >= 2 THEN Split(param, "=")[2] ELSE <<>>

\* The forEach of parseQuery over pairs i.. with params so far; a key
\* assigned again takes the later value (router.ts:246-251).
RECURSIVE ParsePairs(_, _, _)
ParsePairs(pairs, i, params) ==
    IF i > Len(pairs) THEN [ok |-> TRUE, params |-> params]
    ELSE IF KeyOf(pairs[i]) = <<>> THEN ParsePairs(pairs, i + 1, params)
    ELSE LET key == decodeURIComponent(KeyOf(pairs[i]))
             value == decodeURIComponent(ValueOf(pairs[i]))
         IN  IF ~key.ok \/ ~value.ok
             THEN [ok |-> FALSE, params |-> EmptyObj]
             ELSE ParsePairs(pairs, i + 1,
                      [k \in (DOMAIN params) \cup {key.str} |->
                          IF k = key.str THEN value.str ELSE params[k]])

\* queryString is a sequence of at most one string: <<>> is undefined.
\* ok is FALSE where decodeURIComponent throws.
parseQuery(queryString) ==
    IF queryString = <<>> \/ queryString[1] = <<>>
    THEN [ok |-> TRUE, params |-> EmptyObj]
    ELSE ParsePairs(Split(queryString[1], "&"), 1, EmptyObj)

(***************************************************************************)
(* The browser's location                                                  *)
(***************************************************************************)
\* Where pat first occurs in s; 0 when it does not.
FirstIndexOf(s, pat) ==
    LET hits == {n \in 1..(Len(s) - Len(pat) + 1) : SubSeq(s, n, n + Len(pat) - 1) = pat}
    IN  IF hits = {} THEN 0 ELSE CHOOSE n \in hits : \A h \in hits : n <= h

\* s.replace(pat, rep) for a string pat: the first occurrence only.
ReplaceFirst(s, pat, rep) ==
    LET n == FirstIndexOf(s, pat)
    IN  IF n = 0 THEN s ELSE Take(s, n - 1) \o rep \o Drop(s, n - 1 + Len(pat))

\* window.location.hash: "" for an empty fragment, else "#" and the fragment.
LocationHash(loc) == IF loc.hash = <<>> THEN <<>> ELSE <<"#">> \o loc.hash

\* The directory of a pathname: up to its last "/".
RECURSIVE Directory(_)
Directory(pathname) ==
    IF pathname = <<>> \/ pathname[Len(pathname)] = "/" THEN pathname
    ELSE Directory(Take(pathname, Len(pathname) - 1))

\* The location after history.pushState / replaceState(state, "", url): url
\* is resolved against the current location.  A url that starts with "#"
\* changes the fragment alone; otherwise its path (absolute, or relative to
\* the current directory) replaces the pathname and its fragment the
\* fragment.  The query of the url is no part of the pathname.
ResolveUrl(loc, url) ==
    IF url = <<>> THEN loc
    ELSE IF Head(url) = "#" THEN [loc EXCEPT !.hash = Tail(url)]
    ELSE LET beforeHash == Split(url, "#")[1]
             pathPart == Split(beforeHash, "?")[1]
         IN  [pathname |-> IF pathPart = <<>> THEN loc.pathname
                           ELSE IF Head(pathPart) = "/" THEN pathPart
                           ELSE Directory(loc.pathname) \o pathPart,
              hash |-> Drop(url, Len(beforeHash) + 1)]

\* x || "/" for a string x.
OrSlash(x) == IF x = <<>> THEN <<"/">> ELSE x

\* getCurrentPath (router.ts:258-264)
getCurrentPath(loc) ==
    IF mode = "hash"
    THEN OrSlash(Drop(LocationHash(loc), 1))
    ELSE OrSlash(ReplaceFirst(loc.pathname, root, <<>>))

(***************************************************************************)
(* The navigation pipeline (router.ts:76-96, 115-196)                      *)
(*                                                                         *)
(* A handler runs to its next await without interruption; what it changes  *)
(* is gathered in a record m of the fields of `machine` (and overflow,     *)
(* set when a step would start more runs than limits.runs).  A run of      *)
(* handleRoute is suspended at the await named by its pc; result is "none" *)
(* while the awaited promise is pending.                                   *)
(***************************************************************************)
MaxRuns == 2
MaxMiddleware == 2
MaxNextCalls == 2
MaxSnapshots == 1

\* Every allocation gets an object of its own: the state object and the
\* two objects of the constructor, the query object and the params object
\* of each run, the result of each getState().
StateRef == 1
QueryRef(r) == 2 * r + 2
ParamsRef(r) == 2 * r + 3
SnapshotRef(i) == 2 * limits.runs + 3 + i
HeapSize(lim) == 2 * lim.runs + 3 + lim.snapshots
state == heap[StateRef]

\* heap with a new object at ref.
New(h, ref, object) == [h EXCEPT ![ref] = object]

\* The target of the redirect of a denied guard (router.ts:155).
LoginTarget == <<"#", "/", "l", "o", "g", "i", "n">>

Machine ==
    [heap |-> heap, currentRoute |-> currentRoute, location |-> location,
     hashEvents |-> hashEvents, runs |-> runs, microtasks |-> microtasks,
     overflow |-> FALSE]

MiddlewareTags == <<"middleware1", "middleware2", "middleware3", "middleware4", "middleware5">>
MiddlewareTag(k) == MiddlewareTags[k]

\* How many times this.currentRoute has been assigned (router.ts:166): the
\* activations so far, the latest of them being the one in force.
Activations(m) == Cardinality({q \in 1..Len(m.runs) : m.runs[q].activation # 0})

\* What a run hands to its middlewares and to onRouteChange as (to, from),
\* had it read them from the state at the time of the call.
LocalsFromState(m, r) ==
    [to |-> m.heap[StateRef].current, from |-> m.heap[StateRef].previous]

\* What a run hands to its middlewares and to onRouteChange as (to, from):
\* its constants cleanPath and previousPath (router.ts:124-127, 135, 176).
Locals(m, r) == [to |-> m.runs[r].path, from |-> m.runs[r].previousPath]

Log(m, r, tag) == [m EXCEPT !.runs[r].log = Append(@, tag)]

\* A next whose promise takes every resolve() as a new settlement.
NextClosureResolvesAgain(m, r) ==
    IF m.runs[r].index >= Len(middleware)
    THEN [m EXCEPT !.runs[r].resolved = TRUE,
                   !.runs[r].result = "ok",
                   !.microtasks = Append(@, r)]
    ELSE [m EXCEPT !.runs[r].index = @ + 1,
                   !.runs[r].calls = Append(@, 0),
                   !.runs[r].args = Append(@, Locals(m, r)),
                   !.runs[r].log = Append(@, MiddlewareTag(m.runs[r].index + 1))]

\* The closure next of runMiddleware, called for run r (router.ts:186-193):
\* past the last middleware it resolves the promise handleRoute awaits
\* (resolving again changes nothing), else it calls the middleware at index.
NextClosure(m, r) ==
    IF m.runs[r].index >= Len(middleware)
    THEN IF m.runs[r].resolved THEN m
         ELSE [m EXCEPT !.runs[r].resolved = TRUE,
                        !.runs[r].result = "ok",
                        !.microtasks = Append(@, r)]
    ELSE [m EXCEPT !.runs[r].index = @ + 1,
                   !.runs[r].calls = Append(@, 0),
                   !.runs[r].args = Append(@, Locals(m, r)),
                   !.runs[r].log = Append(@, MiddlewareTag(m.runs[r].index + 1))]

\* handleRoute up to its first await (router.ts:122-135), started by origin.
\* A URIError of parseQuery rejects the run before the state is written.
HandleRoute(m, origin) ==
    IF Len(m.runs) + Len(m.hashEvents) >= limits.runs THEN [m EXCEPT !.overflow = TRUE]
    ELSE LET path == getCurrentPath(m.location)
             previousPath == m.heap[StateRef].current
             parts == Split(path, "?")
             cleanPath == parts[1]
             queryString == IF Len(parts) >= 2 THEN <<parts[2]>> ELSE <<>>
             query == parseQuery(queryString)
             r == Len(m.runs) + 1
             run == [origin |-> origin, raw |-> path, path |-> cleanPath,
                     previousPath |-> previousPath, pc |-> "middleware",
                     result |-> "none", index |-> 0, calls |-> <<>>,
                     resolved |-> FALSE, route |-> 0, params |-> 0,
                     left |-> 0, leftActivation |-> 0, activation |-> 0,
                     log |-> <<>>, args |-> <<>>,
                     landed |-> <<>>]
         IN  IF ~query.ok
             THEN [m EXCEPT !.runs = Append(@, [run EXCEPT !.pc = "rejected",
                                                           !.log = <<"URIError">>])]
             ELSE NextClosure(
                    [m EXCEPT !.heap = New([@ EXCEPT ![StateRef] =
                                  [@ EXCEPT !.query = QueryRef(r),
                                            !.previous = previousPath,
                                            !.current = cleanPath]],
                                  QueryRef(r), query.params),
                              !.runs = Append(@, run)], r)

\* window.location.hash = value, or location.replace(value), for a value
\* that starts with "#": the fragment changes, and the browser queues a
\* hashchange event if it differs from the one before.
SetHash(m, value, cause) ==
    IF Tail(value) = m.location.hash THEN m
    ELSE IF Len(m.runs) + Len(m.hashEvents) >= limits.runs
    THEN [m EXCEPT !.overflow = TRUE]
    ELSE [m EXCEPT !.location.hash = Tail(value), !.hashEvents = Append(@, cause)]

\* navigate (router.ts:76-83); cause is who called it.
Navigate(m, path, cause) ==
    IF mode = "hash"
    THEN SetHash(m, IF StartsWith(path, <<"#">>) THEN path ELSE <<"#">> \o path, cause)
    ELSE HandleRoute([m EXCEPT !.location = ResolveUrl(m.location, path)], cause)

\* replace (router.ts:88-96)
Replace(m, path, cause) ==
    IF mode = "hash"
    THEN LET cleanPath == IF StartsWith(path, <<"#">>) THEN Drop(path, 1) ELSE path
         IN  SetHash(m, <<"#">> \o cleanPath, cause)
    ELSE HandleRoute([m EXCEPT !.location = ResolveUrl(m.location, path)], cause)

\* A redirect of run r: navigate(target) is called and handleRoute returns.
Redirect(m, r, target, cause) ==
    LET called == Navigate(Log([m EXCEPT !.runs[r].pc = "done"], r, cause), target, cause)
    IN  [called EXCEPT !.runs[r].landed = getCurrentPath(called.location)]

\* Suspend run r at the await of the callback named pc, which has just
\* been called.
Await(m, r, pc) == Log([m EXCEPT !.runs[r].pc = pc, !.runs[r].result = "none"], r, pc)

\* router.ts:165-177: record the active route, render, scroll, notify.
RenderStage(m, r) ==
    LET route == m.runs[r].route
        rendered == IF routes[route].component THEN <<"component">> ELSE <<>>
        scrolled == IF scrollBehavior = "none" THEN <<>> ELSE <<"scrollTo">>
        notified == IF onRouteChange THEN <<"onRouteChange">> ELSE <<>>
    IN  [m EXCEPT !.currentRoute = route,
                  !.runs[r].activation = Activations(m) + 1,
                  !.runs[r].pc = "done",
                  !.runs[r].args = IF onRouteChange THEN Append(@, Locals(m, r)) ELSE @,
                  !.runs[r].log = @ \o <<"active">> \o rendered \o scrolled \o notified]

\* router.ts:160-163
EnterStage(m, r) ==
    IF routes[m.runs[r].route].beforeEnter THEN Await(m, r, "beforeEnter")
    ELSE RenderStage(m, r)

\* router.ts:151-153
GuardStage(m, r) ==
    IF routes[m.runs[r].route].guard THEN Await(m, r, "guard")
    ELSE EnterStage(m, r)

\* router.ts:154-157: canAccess is falsy.
Denied(m, r) == Redirect(m, r, LoginTarget, "login")

\* router.ts:146-149
LeaveStage(m, r) ==
    IF m.currentRoute # 0 /\ routes[m.currentRoute].afterLeave
    THEN Await([m EXCEPT !.runs[r].left = m.currentRoute,
                         !.runs[r].leftActivation = Activations(m)], r, "afterLeave")
    ELSE GuardStage(m, r)

\* MatchStage without the return after navigate(fallback): the run goes on
\* to the notification.
MatchStageFallsThrough(m, r) ==
    LET found == matchRoute(m.runs[r].path)
        m1 == [m EXCEPT !.heap = New([@ EXCEPT ![StateRef].params = ParamsRef(r)],
                                     ParamsRef(r), found.params),
                        !.runs[r].route = found.route,
                        !.runs[r].params = ParamsRef(r),
                        !.runs[r].log = Append(@, "match")]
    IN  IF found.route = 0
        THEN Log(Redirect(m1, r, fallback, "fallback"), r, "onRouteChange")
        ELSE LeaveStage(m1, r)

\* router.ts:137-144: after the await of runMiddleware.
MatchStage(m, r) ==
    LET found == matchRoute(m.runs[r].path)
        m1 == [m EXCEPT !.heap = New([@ EXCEPT ![StateRef].params = ParamsRef(r)],
                                     ParamsRef(r), found.params),
                        !.runs[r].route = found.route,
                        !.runs[r].params = ParamsRef(r),
                        !.runs[r].log = Append(@, "match")]
    IN  IF found.route = 0 THEN Redirect(m1, r, fallback, "fallback")
        ELSE LeaveStage(m1, r)

\* A rejected await that puts the paths back as they were before the run.
RejectedRollsBack(m, r) ==
    Log([m EXCEPT !.runs[r].pc = "rejected",
                  !.heap[StateRef].current = m.runs[r].previousPath], r, "rejection")

\* A rejected await: the rejection leaves handleRoute, nothing catches it.
Rejected(m, r) == Log([m EXCEPT !.runs[r].pc = "rejected"], r, "rejection")

\* Run r resumes after the await it was suspended at.
Resume(m, r) ==
    LET run == m.runs[r]
    IN  IF run.result = "throw" THEN Rejected(m, r)
        ELSE IF run.pc = "middleware" THEN MatchStage(m, r)
        ELSE IF run.pc = "afterLeave" THEN GuardStage(m, r)
        ELSE IF run.pc = "guard"
        THEN IF run.result = "false" THEN Denied(m, r) ELSE EnterStage(m, r)
        ELSE RenderStage(m, r)

\* getState handing out the state object itself instead of a copy.
getStateLive == [ref |-> StateRef, heap |-> heap]

\* getState (router.ts:115-117): a new object with the fields of state.
getState ==
    [ref |-> SnapshotRef(Len(snapshots) + 1),
     heap |-> New(heap, SnapshotRef(Len(snapshots) + 1), state)]

\* What the object at ref holds, its params and query objects read through.
Contents(h, ref) ==
    [current |-> h[ref].current, previous |-> h[ref].previous,
     params |-> h[h[ref].params], query |-> h[h[ref].query]]

NoCall == [op |-> "none"]
NoLimits == [runs |-> 0, middleware |-> 0, snapshots |-> 0]

(***************************************************************************)
(* Configurations: what the constructor is given (router.ts:35-49)         *)
(***************************************************************************)
RouteDef(pattern, guard, beforeEnter, afterLeave) ==
    [pattern |-> pattern, guard |-> guard, beforeEnter |-> beforeEnter,
     afterLeave |-> afterLeave, component |-> TRUE]

\* options.fallback || (mode === "hash" ? "#/404" : "/404") (router.ts:39)
DefaultFallback(m) ==
    IF m = "hash" THEN <<"#", "/", "4", "0", "4">> ELSE <<"/", "4", "0", "4">>

\* Hash mode: a home route, a guarded route with both hooks, and with or
\* without routes for the login target and the fallback.
HashHome == RouteDef(<<"#", "/">>, FALSE, FALSE, TRUE)
HashProfile == RouteDef(<<"#", "/", "p", "/", ":", "i", "d">>, TRUE, TRUE, TRUE)
HashLogin == RouteDef(<<"#", "/", "l", "o", "g", "i", "n">>, FALSE, FALSE, FALSE)
HashNotFound == RouteDef(<<"#", "/", "4", "0", "4">>, FALSE, FALSE, FALSE)

\* History mode with the default root "/": getCurrentPath hands on the
\* pathname without its first "/", so these are the patterns that match.
HistoryHome == RouteDef(<<"/">>, FALSE, FALSE, TRUE)
HistoryProfile == RouteDef(<<"p", "/", ":", "i", "d">>, TRUE, TRUE, TRUE)
HistoryLogin == RouteDef(<<"l", "o", "g", "i", "n">>, FALSE, FALSE, FALSE)
HistoryNotFound == RouteDef(<<"4", "0", "4">>, FALSE, FALSE, FALSE)

Configs ==
    {[mode |-> "hash", routes |-> t] :
        t \in {<<HashHome, HashProfile, HashLogin, HashNotFound>>,
               <<HashHome, HashProfile>>}}
    \cup
    {[mode |-> "history", routes |-> t] :
        t \in {<<HistoryHome, HistoryProfile, HistoryLogin, HistoryNotFound>>,
               <<HistoryHome, HistoryProfile>>}}

\* The paths the caller navigates to.
NavTargets ==
    IF mode = "hash"
    THEN {<<"#", "/">>, <<"/", "x">>, <<"#", "/", "p", "/", "a", "?", "k", "=", "7">>}
    ELSE {<<"/">>, <<"/", "x">>, <<"/", "p", "/", "a", "?", "k", "=", "7">>}

\* The state of a Router right after its constructor, on a page at loc.
Constructed(c, loc, lim) ==
    /\ limits = lim
    /\ routes = c.routes
    /\ mode = c.mode
    /\ root = <<"/">>
    /\ fallback = DefaultFallback(c.mode)
    /\ onRouteChange = TRUE
    /\ scrollBehavior = "auto"
    /\ currentRoute = 0
    /\ middleware = <<>>
    /\ heap = [ref \in 1..HeapSize(lim) |->
                   IF ref = StateRef
                   THEN [current |-> <<>>, previous |-> <<>>, params |-> 2, query |-> 3]
                   ELSE EmptyObj]
    /\ location = loc
    /\ listening = FALSE
    /\ hashEvents = <<>>
    /\ runs = <<>>
    /\ microtasks = <<>>
    /\ snapshots = <<>>

Init ==
    /\ \E c \in Configs :
           Constructed(c, [pathname |-> <<"/">>, hash |-> <<>>],
                       [runs |-> MaxRuns, middleware |-> MaxMiddleware,
                        snapshots |-> MaxSnapshots])
    /\ callArgs = NoCall
    /\ callRet = NoCall

(***************************************************************************)
(* Actions                                                                 *)
(***************************************************************************)
\* The handler's changes become the next state, unless it would pass limits.runs.
Apply(m) ==
    /\ ~m.overflow
    /\ heap' = m.heap
    /\ currentRoute' = m.currentRoute
    /\ location' = m.location
    /\ hashEvents' = m.hashEvents
    /\ runs' = m.runs
    /\ microtasks' = m.microtasks

\* use (router.ts:54-57), called while the application sets the router up.
Use ==
    /\ runs = <<>>
    /\ Len(middleware) < limits.middleware
    /\ middleware' = Append(middleware, Len(middleware) + 1)
    /\ UNCHANGED <<config, machine, listening, snapshots, harness>>

\* start (router.ts:62-71)
Start ==
    /\ ~listening
    /\ listening' = TRUE
    /\ Apply(HandleRoute(Machine, "start"))
    /\ UNCHANGED <<config, middleware, snapshots, harness>>

\* The application calls navigate(p).
CallNavigate ==
    /\ \E p \in NavTargets : Apply(Navigate(Machine, p, "user"))
    /\ UNCHANGED <<config, middleware, listening, snapshots, harness>>

\* The application calls replace(p).
CallReplace ==
    /\ \E p \in NavTargets : Apply(Replace(Machine, p, "user"))
    /\ UNCHANGED <<config, middleware, listening, snapshots, harness>>

\* The browser dispatches a queued hashchange event (a task: no microtask
\* is left); the listener of start calls handleRoute (router.ts:64).
DispatchHashChange ==
    /\ hashEvents # <<>>
    /\ microtasks = <<>>
    /\ LET m == [Machine EXCEPT !.hashEvents = Tail(@)]
       IN  Apply(IF listening THEN HandleRoute(m, Head(hashEvents)) ELSE m)
    /\ UNCHANGED <<config, middleware, listening, snapshots, harness>>

\* History mode: the user goes back or forward to the entry of url, and the
\* popstate listener of start calls handleRoute (router.ts:66).
PopState ==
    /\ mode = "history"
    /\ listening
    /\ microtasks = <<>>
    /\ \E url \in NavTargets :
           Apply(HandleRoute([Machine EXCEPT !.location = ResolveUrl(location, url)],
                             "popstate"))
    /\ UNCHANGED <<config, middleware, listening, snapshots, harness>>

\* A middleware that run r has called calls the next it was handed, while
\* the run is still at the await of runMiddleware (after that every call of
\* next finds index past the last middleware and the promise resolved).
CallNext ==
    /\ \E r \in 1..Len(runs) : \E k \in 1..Len(runs[r].calls) :
           /\ runs[r].pc = "middleware"
           /\ runs[r].calls[k] < MaxNextCalls
           /\ Apply(NextClosure([Machine EXCEPT !.runs[r].calls[k] = @ + 1], r))
    /\ UNCHANGED <<config, middleware, listening, snapshots, harness>>

Outcomes(pc) == IF pc = "guard" THEN {"true", "false", "throw"} ELSE {"ok", "throw"}

\* The guard or hook that run r awaits returns, resolves or rejects.
Settle ==
    /\ \E r \in 1..Len(runs) :
           /\ runs[r].pc \in {"afterLeave", "guard", "beforeEnter"}
           /\ runs[r].result = "none"
           /\ \E outcome \in Outcomes(runs[r].pc) :
                  Apply([Machine EXCEPT !.runs[r].result = outcome,
                                        !.microtasks = Append(@, r)])
    /\ UNCHANGED <<config, middleware, listening, snapshots, harness>>

\* The run whose await settled first resumes.
RunMicrotask ==
    /\ microtasks # <<>>
    /\ Apply(Resume([Machine EXCEPT !.microtasks = Tail(@)], Head(microtasks)))
    /\ UNCHANGED <<config, middleware, listening, snapshots, harness>>

\* The application calls getState() and keeps the result.
CallGetState ==
    /\ Len(snapshots) < limits.snapshots
    /\ heap' = getState.heap
    /\ snapshots' = Append(snapshots, [ref |-> getState.ref,
                                       held |-> Contents(getState.heap, getState.ref)])
    /\ UNCHANGED <<config, currentRoute, location, hashEvents, runs, microtasks,
                   middleware, listening, harness>>

Next ==
    \/ Use
    \/ Start
    \/ CallNavigate
    \/ CallReplace
    \/ DispatchHashChange
    \/ PopState
    \/ CallNext
    \/ Settle
    \/ RunMicrotask
    \/ CallGetState

Spec == Init /\ [][Next]_vars

(***************************************************************************)
(* SpecSnapshot: the application also writes to the values getState() gave *)
(* it.  The value is a plain object: a write to one of its fields changes  *)
(* that object; a write to an entry of its params or query changes the     *)
(* object that field refers to.                                            *)
(***************************************************************************)
Mutations == {"current", "params", "query"}

\* obj with entry key set to value (obj[key] = value).
SetEntry(obj, key, value) ==
    [k \in (DOMAIN obj) \cup {key} |-> IF k = key THEN value ELSE obj[k]]

\* The heap after the holder of the object at ref has written to it.
Mutated(h, ref, kind) ==
    IF kind = "current" THEN [h EXCEPT ![ref].current = <<"m">>]
    ELSE IF kind = "params"
    THEN [h EXCEPT ![h[ref].params] = SetEntry(@, <<"m">>, <<"m">>)]
    ELSE [h EXCEPT ![h[ref].query] = SetEntry(@, <<"m">>, <<"m">>)]

\* The application writes to a value it got from getState().
MutateSnapshot ==
    /\ \E i \in 1..Len(snapshots) : \E kind \in Mutations :
           /\ heap' = Mutated(heap, snapshots[i].ref, kind)
           /\ snapshots' = [snapshots EXCEPT
                               ![i].held = Contents(heap', snapshots[i].ref)]
    /\ UNCHANGED <<config, currentRoute, location, hashEvents, runs, microtasks,
                   middleware, listening, harness>>

InitSnapshot ==
    /\ \E c \in Configs :
           Constructed(c, [pathname |-> <<"/">>, hash |-> <<>>],
                       [runs |-> MaxRuns, middleware |-> 0, snapshots |-> MaxSnapshots])
    /\ callArgs = NoCall
    /\ callRet = NoCall

NextSnapshot ==
    \/ Start
    \/ CallNavigate
    \/ DispatchHashChange
    \/ Settle
    \/ RunMicrotask
    \/ CallGetState
    \/ MutateSnapshot

SpecSnapshot == InitSnapshot /\ [][NextSnapshot]_vars

(***************************************************************************)
(* SpecGuards: combineGuards (guards.ts:63-71).  callArgs holds the guards *)
(* handed to combineGuards, each by what it comes to: a truthy or a falsy  *)
(* value (returned, or resolved by the promise it returns), a throw or     *)
(* rejection, or a promise that never settles.  callRet holds the call of  *)
(* the combined guard: pc, the index i of the guard it awaits, what that   *)
(* guard settled to, the guards called so far, and the value resolved.     *)
(***************************************************************************)
MaxGuards == 3
GuardOutcomes == {"true", "false", "throw", "never"}

\* The head of the for loop with the guard at index i next (guards.ts:65-69):
\* past the last guard the combined guard returns true, else it calls the
\* guard and awaits what it returns.
CombinedLoop(c, i) ==
    IF i > Len(callArgs.guards) THEN [c EXCEPT !.pc = "resolved", !.value = TRUE]
    ELSE [c EXCEPT !.pc = "await", !.i = i, !.settled = "none",
                   !.called = Append(@, i)]

\* After the await (guards.ts:66-67) with "if (!result) return false" left
\* out: the loop goes on after a falsy result.
CombinedResumeFalsyGoesOn(c) ==
    IF c.settled = "throw" THEN [c EXCEPT !.pc = "rejected"]
    ELSE CombinedLoop(c, c.i + 1)

\* After the await (guards.ts:66-67): a rejection leaves the combined guard,
\* a falsy result returns false, a truthy one goes round the loop.
CombinedResume(c) ==
    IF c.settled = "throw" THEN [c EXCEPT !.pc = "rejected"]
    ELSE IF c.settled = "false" THEN [c EXCEPT !.pc = "resolved", !.value = FALSE]
    ELSE CombinedLoop(c, c.i + 1)

InitGuards ==
    /\ Constructed([mode |-> "hash", routes |-> <<HashHome>>],
                   [pathname |-> <<"/">>, hash |-> <<>>], NoLimits)
    /\ \E n \in 0..MaxGuards : \E gs \in [1..n -> GuardOutcomes] :
           callArgs = [op |-> "combineGuards", guards |-> gs]
    /\ callRet = [pc |-> "idle", i |-> 0, settled |-> "none", called |-> <<>>,
                  value |-> FALSE]

\* The combined guard is called.
CallCombinedGuard ==
    /\ callRet.pc = "idle"
    /\ callRet' = CombinedLoop(callRet, 1)
    /\ UNCHANGED <<config, machine, middleware, listening, snapshots, callArgs>>

\* The guard that the combined guard awaits comes to its outcome.
GuardSettles ==
    /\ callRet.pc = "await"
    /\ callRet.settled = "none"
    /\ callArgs.guards[callRet.i] # "never"
    /\ callRet' = [callRet EXCEPT !.settled = callArgs.guards[callRet.i]]
    /\ UNCHANGED <<config, machine, middleware, listening, snapshots, callArgs>>

\* The combined guard resumes after its await.
ResumeCombinedGuard ==
    /\ callRet.pc = "await"
    /\ callRet.settled # "none"
    /\ callRet' = CombinedResume(callRet)
    /\ UNCHANGED <<config, machine, middleware, listening, snapshots, callArgs>>

NextGuards ==
    \/ CallCombinedGuard
    \/ GuardSettles
    \/ ResumeCombinedGuard

SpecGuards == InitGuards /\ [][NextGuards]_vars

(***************************************************************************)
(* SpecChain: up to MaxChain middlewares, and a page that the router is    *)
(* started on at any of StartFragments (hash mode), one of them with a     *)
(* query that does not decode.                                             *)
(***************************************************************************)
MaxChain == 3
StartFragments ==
    {<<>>, <<"/", "p", "/", "a", "?", "k", "=", "7">>, <<"/", "x", "?", "%">>}

InitChain ==
    /\ \E c \in Configs :
         \E fragment \in (IF c.mode = "hash" THEN StartFragments ELSE {<<>>}) :
           Constructed(c, [pathname |-> <<"/">>, hash |-> fragment],
                       [runs |-> MaxRuns, middleware |-> MaxChain, snapshots |-> 0])
    /\ callArgs = NoCall
    /\ callRet = NoCall

NextChain ==
    \/ Use
    \/ Start
    \/ CallNavigate
    \/ DispatchHashChange
    \/ CallNext
    \/ Settle
    \/ RunMicrotask

SpecChain == InitChain /\ [][NextChain]_vars

(***************************************************************************)
(* SpecRedirects: one navigation request (start() on a page at any of      *)
(* StartPages) to a router whose table has unguarded routes for the        *)
(* fallback and for the login target, and the runs that follow from it.    *)
(***************************************************************************)
MaxRedirectRuns == 4
MaxRedirectMiddleware == 1

StartPages(m) ==
    IF m = "hash"
    THEN {[pathname |-> <<"/">>, hash |-> f] :
             f \in {<<>>, <<"/", "x">>, <<"/", "p", "/", "a">>, <<"/", "p", "/", "b">>}}
    ELSE {[pathname |-> q, hash |-> <<>>] :
             q \in {<<"/">>, <<"/", "x">>, <<"/", "p", "/", "a">>, <<"/", "p", "/", "b">>}}

FullTables ==
    {[mode |-> "hash", routes |-> <<HashHome, HashProfile, HashLogin, HashNotFound>>],
     [mode |-> "history",
      routes |-> <<HistoryHome, HistoryProfile, HistoryLogin, HistoryNotFound>>]}

InitRedirects ==
    /\ \E c \in FullTables : \E page \in StartPages(c.mode) :
           Constructed(c, page,
                       [runs |-> MaxRedirectRuns, middleware |-> MaxRedirectMiddleware,
                        snapshots |-> 0])
    /\ callArgs = NoCall
    /\ callRet = NoCall

NextRedirects ==
    \/ Use
    \/ Start
    \/ DispatchHashChange
    \/ CallNext
    \/ Settle
    \/ RunMicrotask

SpecRedirects == InitRedirects /\ [][NextRedirects]_vars

(***************************************************************************)
(* SpecLeave: up to MaxLeaveRuns runs and no middleware.                   *)
(***************************************************************************)
MaxLeaveRuns == 3

InitLeave ==
    /\ \E c \in Configs :
           Constructed(c, [pathname |-> <<"/">>, hash |-> <<>>],
                       [runs |-> MaxLeaveRuns, middleware |-> 0, snapshots |-> 0])
    /\ callArgs = NoCall
    /\ callRet = NoCall

NextLeave ==
    \/ Start
    \/ CallNavigate
    \/ DispatchHashChange
    \/ PopState
    \/ Settle
    \/ RunMicrotask

SpecLeave == InitLeave /\ [][NextLeave]_vars

(***************************************************************************)
(* Bounds and inputs of the matcher specifications                         *)
(***************************************************************************)
MaxPatternLen == 4
MaxPathLen == 4
PatternChars == {"/", ":", "*", ".", "a"}
PathChars == {"/", "a", "."}

Route(pattern) == RouteDef(pattern, FALSE, FALSE, FALSE)

MaxTablePatternLen == 2
TablePatternChars == {":", "*", "a", "7"}
TablePathChars == {"/", "a", "7"}

(***************************************************************************)
(* SpecExtract: extractParams applied to every pattern and path within the *)
(* bounds.                                                                 *)
(***************************************************************************)
InitExtract ==
    /\ \E p \in StringsUpTo(PatternChars, MaxPatternLen) :
           Constructed([mode |-> "history", routes |-> <<Route(p)>>],
                       [pathname |-> <<"/">>, hash |-> <<>>], NoLimits)
    /\ \E s \in StringsUpTo(PathChars, MaxPathLen) :
           callArgs = [op |-> "extractParams", path |-> s]
    /\ callRet = NoCall

CallExtractParams ==
    /\ callArgs.op = "extractParams"
    /\ callRet = NoCall
    /\ callRet' = [op |-> "extractParams",
                   result |-> extractParams(routes[1].pattern, callArgs.path)]
    /\ UNCHANGED <<config, machine, middleware, listening, snapshots, callArgs>>

SpecExtract == InitExtract /\ [][CallExtractParams]_vars

(***************************************************************************)
(* SpecMatchRoute: matchRoute applied to every table of two patterns and   *)
(* every path within the bounds.                                           *)
(***************************************************************************)
InitMatchRoute ==
    /\ \E p, q \in StringsUpTo(TablePatternChars, MaxTablePatternLen) :
           /\ p # q
           /\ Constructed([mode |-> "history", routes |-> <<Route(p), Route(q)>>],
                          [pathname |-> <<"/">>, hash |-> <<>>], NoLimits)
    /\ \E s \in StringsUpTo(TablePathChars, MaxTablePatternLen) :
           callArgs = [op |-> "matchRoute", path |-> s]
    /\ callRet = NoCall

CallMatchRoute ==
    /\ callArgs.op = "matchRoute"
    /\ callRet = NoCall
    /\ callRet' = [op |-> "matchRoute", result |-> matchRoute(callArgs.path)]
    /\ UNCHANGED <<config, machine, middleware, listening, snapshots, callArgs>>

SpecMatchRoute == InitMatchRoute /\ [][CallMatchRoute]_vars

(***************************************************************************)
(* SpecQuery: start() on a page whose fragment is any string over          *)
(* QueryChars within the bound; handleRoute splits it and parses the query.*)
(***************************************************************************)
MaxLocationLen == 5
QueryChars == {"?", "=", "&", "k", "%", "3", "D"}

InitQuery ==
    /\ \E fragment \in StringsUpTo(QueryChars, MaxLocationLen) :
           Constructed([mode |-> "hash", routes |-> <<HashHome, HashNotFound>>],
                       [pathname |-> <<"/">>, hash |-> fragment],
                       [runs |-> 1, middleware |-> 0, snapshots |-> 0])
    /\ callArgs = NoCall
    /\ callRet = NoCall

SpecQuery == InitQuery /\ [][Start]_vars

(***************************************************************************)
(* Claims on extractParams                                                 *)
(***************************************************************************)
\* s.split("/"): the segments of s.
RECURSIVE Segments(_)
Segments(s) ==
    IF \A i \in 1..Len(s) : s[i] # "/" THEN <<s>>
    ELSE LET n == NonSlashRun(s) IN <<Take(s, n)>> \o Segments(Drop(s, n + 1))

IsParamSegment(seg) == Len(seg) > 1 /\ Head(seg) = ":"
IsWildSegment(seg) == seg = <<"*">>
IsLiteralSegment(seg) == \A i \in 1..Len(seg) : seg[i] \notin {":", "*"}

\* A pattern built from literal, :name and * segments.
SegmentPattern(p) ==
    \A i \in 1..Len(Segments(p)) :
        LET seg == Segments(p)[i]
        IN  IsParamSegment(seg) \/ IsWildSegment(seg) \/ IsLiteralSegment(seg)

ParamPositions(p) == {i \in 1..Len(Segments(p)) : IsParamSegment(Segments(p)[i])}

Extracted == callRet.op = "extractParams"
ThePattern == routes[1].pattern
ThePath == callArgs.path

\* C6 (as claimed): when a path matches a pattern of literal, :name and *
\* segments, the params have exactly the names of the :name segments as
\* keys and each name maps to the path segment at the position of its :name
\* segment.  Read in the claim's favour: only where pattern and path have
\* the same number of segments (so that positions correspond) and no name
\* occurs twice.
C6_ParamsAtPositions ==
    (/\ Extracted
     /\ callRet.result.match
     /\ SegmentPattern(ThePattern)
     /\ Len(Segments(ThePattern)) = Len(Segments(ThePath))
     /\ \A i, j \in ParamPositions(ThePattern) :
            Segments(ThePattern)[i] = Segments(ThePattern)[j] => i = j)
    => /\ DOMAIN callRet.result.params =
              {Tail(Segments(ThePattern)[i]) : i \in ParamPositions(ThePattern)}
       /\ \A i \in ParamPositions(ThePattern) :
              callRet.result.params[Tail(Segments(ThePattern)[i])] = Segments(ThePath)[i]

\* The part of a pattern before its final "*" segment.
EndsInWildSegment(p) ==
    /\ p # <<>>
    /\ p[Len(p)] = "*"
    /\ (Len(p) = 1 \/ p[Len(p) - 1] = "/")
Preceding(p) == Take(p, Len(p) - 1)
PlainText(s) == \A i \in 1..Len(s) : s[i] \notin {":", "*", "."}

\* C7: a pattern whose final segment is "*" matches exactly the paths that
\* begin with something the preceding part of the pattern matches, whatever
\* follows it (nothing, or any characters, "/" included); when the preceding
\* part is plain text, these are exactly the paths that begin with it.
C7_WildcardTakesTheRest ==
    (Extracted /\ EndsInWildSegment(ThePattern))
    => /\ callRet.result.match <=>
              \E k \in 0..Len(ThePath) :
                  extractParams(Preceding(ThePattern), Take(ThePath, k)).match
       /\ PlainText(Preceding(ThePattern))
              => (callRet.result.match <=> StartsWith(ThePath, Preceding(ThePattern)))

\* C7's case: "a/*" has matched "a/a/", the wildcard covering "a/".
C7_Witness ==
    /\ Extracted
    /\ ThePattern = <<"a", "/", "*">>
    /\ ThePath = <<"a", "/", "a", "/">>
    /\ callRet.result.match

\* C8 (as claimed): a pattern of literal segments only matches exactly the
\* path identical to it, character for character.
C8_LiteralAndAnchored ==
    (Extracted /\ IsLiteralSegment(ThePattern))
    => (callRet.result.match <=> ThePath = ThePattern)

(***************************************************************************)
(* Claims on matchRoute                                                    *)
(***************************************************************************)
Matched == callRet.op = "matchRoute"

\* The routes of the table whose pattern matches the path handed in.
MatchingRoutes ==
    {i \in 1..Len(routes) : extractParams(routes[i].pattern, callArgs.path).match}

\* C5 (as claimed): the route selected is the earliest inserted one among
\* those whose pattern matches, with the params of that pattern; with no
\* matching pattern the result is no route and empty params.
C5_EarliestInsertedWins ==
    Matched =>
        IF MatchingRoutes = {}
        THEN callRet.result = [route |-> 0, params |-> EmptyObj]
        ELSE /\ callRet.result.route \in MatchingRoutes
             /\ \A i \in MatchingRoutes : callRet.result.route <= i
             /\ callRet.result.params =
                    extractParams(routes[callRet.result.route].pattern, callArgs.path).params

(***************************************************************************)
(* Claims on the navigation pipeline                                       *)
(***************************************************************************)
Has(log, tag) == \E i \in 1..Len(log) : log[i] = tag
Count(log, tag) == Cardinality({i \in 1..Len(log) : log[i] = tag})
RunIds == 1..Len(runs)

\* The path getCurrentPath gives on a page at the login target.
LoginPath ==
    IF mode = "hash" THEN <<"/", "l", "o", "g", "i", "n">>
    ELSE getCurrentPath([pathname |-> <<"/", "l", "o", "g", "i", "n">>, hash |-> <<>>])

\* C1 (as claimed): a run whose guard came out falsy calls neither
\* beforeEnter nor the component nor onRouteChange, and its redirect leaves
\* the location at the login target, in hash mode and in history mode.
C1_DeniedRunRedirectsToLogin ==
    \A r \in RunIds :
        Has(runs[r].log, "login")
        => /\ ~Has(runs[r].log, "beforeEnter")
           /\ ~Has(runs[r].log, "component")
           /\ ~Has(runs[r].log, "onRouteChange")
           /\ runs[r].pc = "done"
           /\ runs[r].landed = LoginPath

NoMatchRun(r) == Has(runs[r].log, "match") /\ runs[r].route = 0

HookTags == {"afterLeave", "guard", "beforeEnter", "component", "onRouteChange"}

\* A run that found no match has called navigate(fallback) once and nothing
\* after it, and none of the hooks, the guard, the renderer or onRouteChange.
NoMatchRunOnlyRedirects(r) ==
    /\ runs[r].pc = "done"
    /\ Count(runs[r].log, "fallback") = 1
    /\ runs[r].log[Len(runs[r].log)] = "fallback"
    /\ \A tag \in HookTags : ~Has(runs[r].log, tag)

\* C2 (as claimed): a run that finds no match redirects to the fallback
\* once and stops, and the fresh run the redirect leads to issues no
\* further redirect.
C2_ExactlyOneRedirect ==
    \A r \in RunIds :
        /\ NoMatchRun(r) => NoMatchRunOnlyRedirects(r)
        /\ runs[r].origin = "fallback"
              => ~Has(runs[r].log, "fallback") /\ ~Has(runs[r].log, "login")

\* The path a run sees on a page at the fallback.
FallbackPath ==
    Split(getCurrentPath(IF mode = "hash"
                         THEN [pathname |-> <<"/">>, hash |-> Tail(fallback)]
                         ELSE ResolveUrl([pathname |-> <<"/">>, hash |-> <<>>], fallback)),
          "?")[1]

FallbackRegistered == matchRoute(FallbackPath).route # 0

Redirects(cause) == {r \in RunIds : Has(runs[r].log, cause)}
StartedBy(cause) == {r \in RunIds : runs[r].origin = cause}
Queued(cause) == {i \in 1..Len(hashEvents) : hashEvents[i] = cause}

\* C2 (amended): a run that finds no match calls navigate(fallback) once
\* and stops without calling a hook, the guard, the renderer or
\* onRouteChange; each such redirect starts at most one fresh run (in
\* history mode exactly one, at once); and a fresh run that matches the
\* fallback path against a table with a pattern for it redirects to the
\* fallback no further.
C2_FallbackRedirect ==
    /\ \A r \in RunIds : NoMatchRun(r) => NoMatchRunOnlyRedirects(r)
    /\ Cardinality(StartedBy("fallback")) + Cardinality(Queued("fallback"))
           <= Cardinality(Redirects("fallback"))
    /\ mode = "history"
           => Cardinality(StartedBy("fallback")) = Cardinality(Redirects("fallback"))
    /\ \A r \in StartedBy("fallback") :
           (/\ Has(runs[r].log, "match")
            /\ runs[r].path = FallbackPath
            /\ FallbackRegistered)
           => runs[r].route # 0 /\ ~Has(runs[r].log, "fallback")

\* C2's case: a run has found no match and redirected, and the fresh run
\* of that redirect has matched the fallback's route and rendered it.
C2_Witness ==
    \E r, f \in RunIds :
        /\ NoMatchRun(r)
        /\ runs[f].origin = "fallback"
        /\ runs[f].path = FallbackPath
        /\ Has(runs[f].log, "component")

\* C3 (as claimed): while a middleware a run has called has not called its
\* continuation, the run calls no later middleware and does not get past
\* the await of runMiddleware.
C3_SilentMiddlewareHalts ==
    \A r \in RunIds : \A k \in 1..Len(runs[r].calls) :
        runs[r].calls[k] = 0
        => /\ Len(runs[r].calls) = k
           /\ ~runs[r].resolved
           /\ runs[r].pc = "middleware"

InProgress(r) == runs[r].pc \notin {"done", "rejected"}

\* C4 (as claimed): at most one run of handleRoute is in progress.
C4_OneRunAtATime == Cardinality({r \in RunIds : InProgress(r)}) <= 1

(***************************************************************************)
(* Claims on the query parser and on getState                              *)
(***************************************************************************)
\* What the claim says of a pair: split at its first "=", the value keeping
\* any later "=".
ClaimedKey(pair) == Take(pair, NonEqRun(pair))
ClaimedValue(pair) == Drop(pair, NonEqRun(pair) + 1)

RECURSIVE ClaimedPairs(_, _, _)
ClaimedPairs(pairs, i, params) ==
    IF i > Len(pairs) THEN [ok |-> TRUE, params |-> params]
    ELSE LET key == decodeURIComponent(ClaimedKey(pairs[i]))
             value == decodeURIComponent(ClaimedValue(pairs[i]))
         IN  IF ~key.ok \/ ~value.ok THEN [ok |-> FALSE, params |-> EmptyObj]
             ELSE IF key.str = <<>> THEN ClaimedPairs(pairs, i + 1, params)
             ELSE ClaimedPairs(pairs, i + 1,
                      [k \in (DOMAIN params) \cup {key.str} |->
                          IF k = key.str THEN value.str ELSE params[k]])

\* The mapping the claim gives for raw location l: from all characters
\* after its first "?".
ClaimedQuery(l) ==
    LET after == Drop(l, Len(Split(l, "?")[1]) + 1)
    IN  IF after = <<>> THEN [ok |-> TRUE, params |-> EmptyObj]
        ELSE ClaimedPairs(Split(after, "&"), 1, EmptyObj)

\* C9 (as claimed): once a run for raw location L has begun (and nothing
\* failed to decode), state.current is the part of L before its first "?"
\* and state.query is the mapping of the characters after it.
C9_QueryOfLocation ==
    (/\ runs # <<>>
     /\ runs[Len(runs)].pc # "rejected"
     /\ ClaimedQuery(runs[Len(runs)].raw).ok)
    => /\ state.current = Split(runs[Len(runs)].raw, "?")[1]
       /\ heap[state.query] = ClaimedQuery(runs[Len(runs)].raw).params

\* C10: what a value returned by getState() holds (its current and
\* previous, and its params and query read through) stays what it held when
\* getState() returned, whatever the router does afterwards.
C10_SnapshotUnaffected ==
    \A i \in 1..Len(snapshots) : Contents(heap, snapshots[i].ref) = snapshots[i].held

\* C10's case: after getState() a navigation has changed current, previous,
\* params and query of the router's state.
C10_Witness ==
    \E i \in 1..Len(snapshots) :
        /\ state.current # snapshots[i].held.current
        /\ state.previous # snapshots[i].held.previous
        /\ heap[state.params] # snapshots[i].held.params
        /\ heap[state.query] # snapshots[i].held.query

\* C11 (as claimed): a write to a value returned by getState() leaves the
\* router's state as it was: a following getState() returns the same
\* current, previous, params and query as before the write.
C11_MutationStaysOutside ==
    [][MutateSnapshot => Contents(heap', StateRef) = Contents(heap, StateRef)]_vars

\* C12 (as claimed): in history mode the path handed to a run, and written
\* to state.current, is the pathname less the root as a prefix, and begins
\* with "/".
C12_HistoryPathKeepsSlash ==
    mode = "history"
    => \A r \in RunIds : runs[r].path # <<>> /\ Head(runs[r].path) = "/"

(***************************************************************************)
(* Claims on combineGuards                                                 *)
(***************************************************************************)
TheGuards == callArgs.guards
AllTruthy == \A i \in 1..Len(TheGuards) : TheGuards[i] = "true"

\* C13: the combined guard calls the guards one at a time in argument
\* order, each only after all before it came out truthy and never one after
\* a falsy one; it resolves to true only when every guard came out truthy,
\* to false only after a guard came out falsy (with all guards called being
\* those up to it), and with no guards it resolves to true.
C13_CombineGuardsIsAnd ==
    /\ callRet.called = [k \in 1..Len(callRet.called) |-> k]
    /\ \A k \in 1..Len(callRet.called) : \A j \in 1..(k - 1) : TheGuards[j] = "true"
    /\ callRet.pc = "await"
           => callRet.i = Len(callRet.called) /\ callRet.settled \in {"none", TheGuards[callRet.i]}
    /\ callRet.pc = "resolved"
           => /\ callRet.value <=> AllTruthy
              /\ callRet.value => Len(callRet.called) = Len(TheGuards)
              /\ ~callRet.value => TheGuards[Len(callRet.called)] = "false"
    /\ callRet.pc = "rejected" => TheGuards[Len(callRet.called)] = "throw"
    /\ (TheGuards = <<>> /\ callRet.pc # "idle")
           => callRet.pc = "resolved" /\ callRet.value

\* C13's case: three guards, the second falsy; the combined guard has
\* resolved to false and the third was never called.
C13_Witness ==
    /\ Len(TheGuards) = 3
    /\ callRet.pc = "resolved"
    /\ ~callRet.value
    /\ callRet.called = <<1, 2>>

(***************************************************************************)
(* Claims on the order of steps and on what they are handed                *)
(***************************************************************************)
StepOrder ==
    MiddlewareTags \o <<"match", "afterLeave", "guard", "beforeEnter", "active",
                        "component", "scrollTo", "onRouteChange">>
Rank(tag) == CHOOSE i \in 1..Len(StepOrder) : StepOrder[i] = tag
InOrder(log) == \A i, j \in 1..Len(log) : i < j => Rank(log[i]) < Rank(log[j])

\* C14 (as claimed): in a run that has rendered, the steps were taken in
\* the order middlewares (in registration order), matching, afterLeave,
\* guard, beforeEnter, active route, renderer, scroll, onRouteChange, and
\* every middleware had called its continuation before the step after it.
C14_StepsInOrder ==
    \A r \in RunIds :
        Has(runs[r].log, "component")
        => /\ InOrder(runs[r].log)
           /\ Len(runs[r].calls) = Len(middleware)
           /\ \A k \in 1..Len(middleware) : runs[r].calls[k] >= 1

CallbackTags == {MiddlewareTags[k] : k \in 1..Len(MiddlewareTags)} \cup {"onRouteChange"}

\* Every middleware and onRouteChange call of run r got (to, from) = the
\* run's clean path and the path that was current before the run.
HandedItsOwnPaths(r) ==
    /\ Len(runs[r].args) = Cardinality({i \in 1..Len(runs[r].log) : runs[r].log[i] \in CallbackTags})
    /\ \A i \in 1..Len(runs[r].args) :
           runs[r].args[i] = [to |-> runs[r].path, from |-> runs[r].previousPath]

Decoded(r) == ~Has(runs[r].log, "URIError")

\* The latest run before run r whose query decoded; 0 if there is none.
LastDecodedBefore(r) ==
    LET earlier == {q \in RunIds : q < r /\ Decoded(q)}
    IN  IF earlier = {} THEN 0 ELSE CHOOSE q \in earlier : \A o \in earlier : o <= q

QueryStringOf(raw) ==
    LET parts == Split(raw, "?")
    IN  IF Len(parts) >= 2 THEN <<parts[2]>> ELSE <<>>

RejectedByHook(r) == runs[r].pc = "rejected" /\ Has(runs[r].log, "rejection")

\* A run that a rejection has left: the rejection came from the hook or
\* guard called last, nothing was called after it, and if no run has
\* started since, current, previous and query are what the run wrote.
StoppedAtRejection(r) ==
    LET log == runs[r].log
    IN  /\ Len(log) >= 2
        /\ log[Len(log)] = "rejection"
        /\ log[Len(log) - 1] \in {"afterLeave", "guard", "beforeEnter"}
        /\ \A tag \in {"active", "component", "scrollTo", "onRouteChange",
                       "login", "fallback"} : ~Has(log, tag)
        /\ r = Len(runs)
               => /\ state.current = runs[r].path
                  /\ state.previous = runs[r].previousPath
                  /\ heap[state.query] =
                         parseQuery(QueryStringOf(runs[r].raw)).params

\* The step in which a rejection leaves a run writes nothing: the state
\* object and the mappings, the active route and the location stay, and no
\* run starts.
RejectionWritesNothing ==
    \A r \in RunIds :
        (runs[r].pc # "rejected" /\ runs'[r].pc = "rejected")
        => /\ heap' = heap
           /\ currentRoute' = currentRoute
           /\ location' = location
           /\ Len(runs') = Len(runs)
           /\ hashEvents' = hashEvents

\* C16: when afterLeave, the guard or beforeEnter rejects, the rejection
\* leaves the run uncaught, the run takes no later step (the active route
\* stays, no renderer, no onRouteChange, no redirect), and current,
\* previous and query stay as written at the start: nothing is rolled back.
C16_RejectionStopsRun ==
    /\ [](\A r \in RunIds : RejectedByHook(r) => StoppedAtRejection(r))
    /\ [][RejectionWritesNothing]_vars

\* C16's case: with a route active, a run for another route has got past
\* afterLeave and the guard, and its beforeEnter has rejected.
C16_Witness ==
    \E r \in RunIds :
        /\ RejectedByHook(r)
        /\ Has(runs[r].log, "beforeEnter")
        /\ currentRoute # 0
        /\ currentRoute # runs[r].route
        /\ r = Len(runs)

(***************************************************************************)
(* Claims on the runs that follow from one request                         *)
(***************************************************************************)
\* C17 (as claimed, for a table with unguarded routes for the fallback and
\* the login target): a redirect leads to a run for its target, which
\* renders, so that one request leads to at most two runs: the run started
\* by a login redirect is for the login path, the run started by a fallback
\* redirect is for the fallback path, and no third run starts.
C17_RedirectChainStops ==
    /\ \A r \in RunIds :
           /\ runs[r].origin = "login" => runs[r].path = LoginPath
           /\ runs[r].origin = "fallback" => runs[r].path = FallbackPath
    /\ Len(runs) <= 2

(***************************************************************************)
(* Claims on the active route                                              *)
(***************************************************************************)
\* No run is in progress or suspended, and nothing is waiting to start one.
Idle ==
    /\ microtasks = <<>>
    /\ hashEvents = <<>>
    /\ \A r \in RunIds : ~InProgress(r)

\* C18 (as claimed): whenever the router is idle and a route has been
\* rendered, the active route is the first route of the table that matches
\* state.current, and state.params is what that route's pattern extracts
\* from state.current.
C18_ActiveRouteMatchesState ==
    (Idle /\ currentRoute # 0)
    => /\ matchRoute(state.current).route = currentRoute
       /\ heap[state.params] = matchRoute(state.current).params

\* C19 (as claimed): between two calls of the afterLeave of a route there
\* is a render of that route: no two runs have called afterLeave for the
\* same activation.
C19_OneLeavePerActivation ==
    \A r, q \in RunIds :
        (r # q /\ runs[r].leftActivation # 0)
        => runs[r].leftActivation # runs[q].leftActivation

(***************************************************************************)
(* Claims on repeated calls of next                                        *)
(***************************************************************************)
\* C20: in every run each middleware is called at most once, and matching
\* and every step after it is taken at most once, however often the
\* middlewares call next: the run is resumed from the await of
\* runMiddleware at most once.
C20_EachStepAtMostOnce ==
    \A r \in RunIds :
        /\ \A i \in 1..Len(StepOrder) : Count(runs[r].log, StepOrder[i]) <= 1
        /\ runs[r].index = Len(runs[r].calls)
        /\ runs[r].index <= Len(middleware)
        /\ Cardinality({i \in 1..Len(microtasks) : microtasks[i] = r}) <= 1
        /\ (runs[r].pc = "middleware" /\ runs[r].resolved)
               => /\ ~Has(runs[r].log, "match")
                  /\ \E i \in 1..Len(microtasks) : microtasks[i] = r

\* C20's case: a middleware has called next twice, and the run has matched
\* and rendered.
C20_Witness ==
    \E r \in RunIds : \E k \in 1..Len(runs[r].calls) :
        /\ runs[r].calls[k] = 2
        /\ Len(middleware) >= 2
        /\ Has(runs[r].log, "component")

====
